---- MODULE Spec2Model ----
(***************************************************************************)
(* Model of vid_to_gif.py: the command-line video to GIF converter.        *)
(*                                                                         *)
(* A Python string is a sequence of one-character strings, so that         *)
(* float(), int(), str.lower() and str.split(':') are computed on the      *)
(* characters.  An optional argument (None or a string) is a record        *)
(* [given, text].  Seconds are integers: over the characters used here     *)
(* float() only accepts an optional '-' followed by decimal digits.        *)
(***************************************************************************)
EXTENDS Integers, Sequences, FiniteSets, TLC

\* ------------------------------------------------------------------ bounds
\* longest time expression of the normalizer specification (SpecTs)
MaxLen == 5
\* longest --start / --end expression of a run of main (Spec)
MaxRunLen == 2

\* ----------------------------------------------------------------- strings
Digits == {"0", "1", "2", "3", "4", "5", "6", "7", "8", "9"}

DigitVal(c) ==
  CASE c = "0" -> 0 [] c = "1" -> 1 [] c = "2" -> 2 [] c = "3" -> 3
    [] c = "4" -> 4 [] c = "5" -> 5 [] c = "6" -> 6 [] c = "7" -> 7
    [] c = "8" -> 8 [] c = "9" -> 9

\* value of a string of decimal digits
RECURSIVE DecVal(_)
DecVal(s) ==
  IF s = <<>> THEN 0
  ELSE DecVal(SubSeq(s, 1, Len(s) - 1)) * 10 + DigitVal(s[Len(s)])

\* the digits of a signed decimal literal: the text after an optional '-'
Unsigned(s) == IF s # <<>> /\ s[1] = "-" THEN Tail(s) ELSE s

\* float(s) / int(s) succeed: an optional '-' and at least one digit
\* (no '.', exponent, blank or 'inf'/'nan' occurs in the alphabets below,
\* so the two grammars coincide on every string of the model)
ParsesAsNumber(s) ==
  /\ Unsigned(s) # <<>>
  /\ \A i \in 1..Len(Unsigned(s)) : Unsigned(s)[i] \in Digits

NumberOf(s) ==
  IF s # <<>> /\ s[1] = "-" THEN 0 - DecVal(Unsigned(s)) ELSE DecVal(s)

\* a raised ValueError, or a returned value
Raised == [raised |-> TRUE, val |-> 0]
Returned(v) == [raised |-> FALSE, val |-> v]

\* float(s)
float(s) == IF ParsesAsNumber(s) THEN Returned(NumberOf(s)) ELSE Raised

\* int(s)
int(s) == IF ParsesAsNumber(s) THEN Returned(NumberOf(s)) ELSE Raised

\* s.split(':'): the parts between the colons, empty parts included
RECURSIVE split(_)
split(s) ==
  IF \A i \in 1..Len(s) : s[i] # ":" THEN <<s>>
  ELSE LET k == CHOOSE i \in 1..Len(s) :
                  s[i] = ":" /\ \A j \in 1..(i - 1) : s[j] # ":"
       IN <<SubSeq(s, 1, k - 1)>> \o split(SubSeq(s, k + 1, Len(s)))

\* s.lower() on the letters the width tokens use
LowerChar(c) ==
  CASE c = "H" -> "h" [] c = "D" -> "d" [] c = "M" -> "m" [] OTHER -> c

lower(s) == [i \in 1..Len(s) |-> LowerChar(s[i])]

\* all strings over an alphabet up to a length
StringsUpTo(alphabet, n) == UNION {[1..k -> alphabet] : k \in 0..n}

\* optional arguments: None, or a string
None == [given |-> FALSE, text |-> <<>>]
Some(s) == [given |-> TRUE, text |-> s]
\* Python truthiness of an optional string: neither None nor ''
Truthy(a) == a.given /\ a.text # <<>>

\* ------------------------------------------------- timestamp_to_seconds
hms_mutant(hours, minutes, seconds) == hours * 60 + minutes * 60 + seconds
hms(hours, minutes, seconds) == hours * 3600 + minutes * 60 + seconds

ms(minutes, seconds) == minutes * 60 + seconds

\* timestamp_to_seconds on a string (the None case is decided by callers,
\* which only pass a string)
timestamp_to_seconds_mutant(timestamp) ==
  IF ~float(timestamp).raised THEN float(timestamp)
  ELSE LET parts == split(timestamp) IN
    IF Len(parts) >= 3 THEN
      IF \E i \in 1..3 : float(parts[i]).raised THEN Raised
      ELSE Returned(hms(float(parts[1]).val, float(parts[2]).val,
                        float(parts[3]).val))
    ELSE IF Len(parts) = 2 THEN
      IF \E i \in 1..2 : float(parts[i]).raised THEN Raised
      ELSE Returned(ms(float(parts[1]).val, float(parts[2]).val))
    ELSE float(parts[1])
timestamp_to_seconds(timestamp) ==
  IF ~float(timestamp).raised THEN float(timestamp)
  ELSE LET parts == split(timestamp) IN
    IF Len(parts) = 3 THEN
      IF \E i \in 1..3 : float(parts[i]).raised THEN Raised
      ELSE Returned(hms(float(parts[1]).val, float(parts[2]).val,
                        float(parts[3]).val))
    ELSE IF Len(parts) = 2 THEN
      IF \E i \in 1..2 : float(parts[i]).raised THEN Raised
      ELSE Returned(ms(float(parts[1]).val, float(parts[2]).val))
    ELSE IF Len(parts) = 1 THEN float(parts[1])
    ELSE Raised


\* --------------------------------------------------------------- the state
VARIABLES
  pc,            \* position of the run of main / video_to_gif
  args,          \* the parsed command line (argparse namespace)
  width,         \* main's local 'width'
  cmd,           \* video_to_gif's trim arguments appended to 'cmd'
  success,       \* video_to_gif's value: "none" until it returns, then
                 \* "True" or "False"
  exitStatus,    \* process exit status, -1 while running
  printed,       \* messages written to the terminal, in order
  ffmpeg,        \* how 'ffmpeg -version' ended: "unknown" until it is run
  procs,         \* external processes started so far, in order
  running,       \* external processes started and not yet finished
  paletteOk,     \* the palette pass has finished with exit status 0
  paletteExists, \* palette.png exists in the working directory
  outputExists,  \* the output GIF exists
  fs0,           \* the file system when the run began
  filters,       \* video_to_gif's list 'filters'
  palette_cmd,   \* the command line of the palette pass, once started
  gif_cmd,       \* the command line of the final pass, once started
  ts,            \* SpecTs: the time expression handed to the normalizer
  result         \* SpecTs: what timestamp_to_seconds gave for it

vars == <<pc, args, width, cmd, success, exitStatus, printed, ffmpeg, procs,
          running, paletteOk, paletteExists, outputExists, fs0, filters,
          palette_cmd, gif_cmd, ts, result>>

\* what only the two Start actions of the passes change
encVars == <<filters, palette_cmd, gif_cmd>>

\* ------------------------------------------------------------------ inputs
\* characters of the --start / --end expressions of a run
RunAlphabet == {"1", ":", "-"}
\* further expressions of a run: "0", and the malformed "1:2:3:4" and "abc"
ExampleTimes ==
  {<<"0">>, <<"1", ":", "2", ":", "3", ":", "4">>, <<"a", "b", "c">>}
RunTimes ==
  {None} \cup {Some(s) : s \in StringsUpTo(RunAlphabet, MaxRunLen)}
         \cup {Some(s) : s \in ExampleTimes}

\* --fps: the default and another value
FpsValues == {10, 15}

\* characters of the expressions of the normalizer specification
TsAlphabet == {"0", "1", "3", "5", ":", "-", "a"}
TimeExprs == StringsUpTo(TsAlphabet, MaxLen)

\* -w tokens: absent, '', hd, HD, Medium, 640, 0, -5, big
WidthTokens ==
  {None, Some(<<>>), Some(<<"h", "d">>), Some(<<"H", "D">>),
   Some(<<"M", "e", "d", "i", "u", "m">>), Some(<<"6", "4", "0">>),
   Some(<<"0">>), Some(<<"-", "5">>), Some(<<"b", "i", "g">>)}

\* RECOMMENDED_WIDTHS
PresetNames ==
  {<<"t", "i", "n", "y">>, <<"s", "m", "a", "l", "l">>,
   <<"m", "e", "d", "i", "u", "m">>, <<"l", "a", "r", "g", "e">>,
   <<"x", "l", "a", "r", "g", "e">>, <<"h", "d">>}

RECOMMENDED_WIDTHS(name) ==
  CASE name = <<"t", "i", "n", "y">> -> 240
    [] name = <<"s", "m", "a", "l", "l">> -> 320
    [] name = <<"m", "e", "d", "i", "u", "m">> -> 480
    [] name = <<"l", "a", "r", "g", "e">> -> 640
    [] name = <<"x", "l", "a", "r", "g", "e">> -> 800
    [] name = <<"h", "d">> -> 1280

NoWidth == [given |-> FALSE, n |-> 0]
WidthOf(n) == [given |-> TRUE, n |-> n]

\* outcomes of starting an external program with subprocess.run(check=True):
\* exit status 0, a non-zero exit status (CalledProcessError), or the
\* program is not on PATH (FileNotFoundError, nothing is started)
RunOutcomes == {"ok", "nonzero", "notfound"}

\* what ffprobe wrote when it exited with status 0: a duration, a zero
\* duration, or text that is not a number
ProbeOutputs == {"duration", "zero", "garbage"}

\* ----------------------------------------------------------------- helpers
\* sys.exit(code), or the interpreter ending on an uncaught exception
Exit(code, messages) ==
  /\ pc' = "exited"
  /\ exitStatus' = code
  /\ printed' = printed \o messages

\* an exception nobody catches: the interpreter prints the traceback and
\* the process ends with status 1
Uncaught(exception) == Exit(1, <<exception>>)

\* video_to_gif returns a value to main
Return(value, messages) ==
  /\ pc' = "returned"
  /\ success' = value
  /\ printed' = printed \o messages

\* check_ffmpeg's value for each outcome of running 'ffmpeg -version'
check_ffmpeg_mutant(outcome) == outcome # "notfound"
check_ffmpeg(outcome) == outcome = "ok"

\* get_video_duration's value: a duration, None, or a propagated exception.
\* CalledProcessError and ValueError are caught; FileNotFoundError is not.
NoDuration == [raised |-> FALSE, given |-> FALSE, val |-> 0]
get_video_duration(outcome, output) ==
  CASE outcome = "notfound" -> [raised |-> TRUE, given |-> FALSE, val |-> 0]
    [] outcome = "nonzero" -> NoDuration
    [] outcome = "ok" /\ output = "garbage" -> NoDuration
    [] outcome = "ok" /\ output = "zero" ->
         [raised |-> FALSE, given |-> TRUE, val |-> 0]
    [] outcome = "ok" /\ output = "duration" ->
         [raised |-> FALSE, given |-> TRUE, val |-> 1]

\* main's width resolution: the resolved width and the message printed, or
\* the invalid-width exit
resolve_width(token) ==
  IF Truthy(token) THEN
    IF lower(token.text) \in PresetNames
      THEN [exit |-> FALSE,
            width |-> WidthOf(RECOMMENDED_WIDTHS(lower(token.text))),
            msg |-> "preset_width"]
    ELSE IF ~int(token.text).raised
      THEN [exit |-> FALSE, width |-> WidthOf(int(token.text).val),
            msg |-> "custom_width"]
    ELSE [exit |-> TRUE, width |-> NoWidth, msg |-> "invalid_width"]
  ELSE [exit |-> FALSE, width |-> WidthOf(RECOMMENDED_WIDTHS(
          <<"m", "e", "d", "i", "u", "m">>)), msg |-> "default_width"]

\* main's timestamp validation raises ValueError
timestamps_invalid(start, end) ==
  \/ Truthy(start) /\ timestamp_to_seconds(start.text).raised
  \/ Truthy(end) /\ timestamp_to_seconds(end.text).raised

\* video_to_gif's time-window test
duration_rejected_mutant(duration) == duration < 0
duration_rejected(duration) == duration <= 0

\* the exit status main derives from video_to_gif's value
exit_code_mutant(value) == 0
exit_code(value) == IF value = "True" THEN 0 ELSE 1

\* a trim argument of the encoder command line; the text str(x) that the
\* code passes is represented by the number x
Opt(name, x) == [opt |-> name, val |-> x]

\* the duration handed to -t: the window from start to end, or the end time
\* itself when no start is given
trim_duration_mutant(start_given, start_seconds, end_seconds) == end_seconds
trim_duration(start_given, start_seconds, end_seconds) ==
  IF start_given THEN end_seconds - start_seconds ELSE end_seconds

\* one filter of a filter chain: 'scale=<arg>:-1:flags=lanczos', 'fps=<arg>',
\* 'palettegen', or 'paletteuse' reading input stream <arg>
Filter(name, x) == [name |-> name, arg |-> x]

\* lines 111-115: the scale filter; 'if width' is false for None and for 0
scale_filter(w) ==
  IF w.given /\ w.n # 0 THEN Filter("scale", w.n) ELSE Filter("scale", -1)

\* lines 109-118: the list 'filters'
base_filters(w, fps) == <<scale_filter(w), Filter("fps", fps)>>

\* line 121: ','.join(filters) + ',palettegen'
palette_filters(fs) == Append(fs, Filter("palettegen", 0))

\* line 137: ','.join(filters) + '[x];[x][1:v]paletteuse'
gif_filters_mutant(fs) ==
  <<Filter("scale", -1)>> \o Tail(fs) \o <<Filter("paletteuse", 1)>>
gif_filters(fs) == Append(fs, Filter("paletteuse", 1))

\* an encoder command line: 'ffmpeg -i <input>' and the trim arguments
\* (cmd), a further -i input if any, the filter option with its chain, and
\* '-y <out>'
Command(c, extra, option, chain, out) ==
  [cmd |-> c, extra_input |-> extra, filter_opt |-> option,
   filter |-> chain, out |-> out]

NoCommand == Command(<<>>, <<>>, "", <<>>, "")

\* -------------------------------------------------------------------- main
\* lines 222-226: the capability check
CheckFfmpeg ==
  /\ pc = "main"
  /\ \E outcome \in RunOutcomes :
       /\ ffmpeg' = outcome
       /\ procs' = IF outcome = "notfound" THEN procs
                   ELSE Append(procs, "ffmpeg -version")
       /\ IF check_ffmpeg(outcome)
            THEN /\ pc' = "info"
                 /\ UNCHANGED <<exitStatus, printed>>
            ELSE Exit(1, <<"ffmpeg_missing">>)
  /\ UNCHANGED <<args, width, cmd, success, running, paletteOk,
                 paletteExists, outputExists, fs0, ts, result>>
  /\ UNCHANGED encVars

\* lines 228-237: --list-info
ListInfo ==
  /\ pc = "info"
  /\ args.list_info
  /\ \E outcome \in RunOutcomes, output \in ProbeOutputs :
       LET duration == get_video_duration(outcome, output) IN
       /\ procs' = IF outcome = "notfound" THEN procs
                   ELSE Append(procs, "ffprobe")
       /\ IF duration.raised THEN Uncaught("FileNotFoundError")
          ELSE IF duration.given /\ duration.val # 0
            THEN Exit(0, <<"video_duration">>)
          ELSE Exit(0, <<"no_duration">>)
  /\ UNCHANGED <<args, width, cmd, success, running, paletteOk,
                 paletteExists, outputExists, fs0, ffmpeg, ts, result>>
  /\ UNCHANGED encVars

\* lines 239-255: the width argument
ResolveWidth_mutant ==
  /\ pc = "info"
  /\ ~args.list_info
  /\ LET r == resolve_width(args.width) IN
       /\ width' = IF r.exit THEN WidthOf(480) ELSE r.width
       /\ pc' = "timestamps"
       /\ printed' = Append(printed, r.msg)
       /\ UNCHANGED exitStatus
  /\ UNCHANGED <<args, cmd, success, procs, running, paletteOk,
                 paletteExists, outputExists, fs0, ffmpeg, ts, result>>
  /\ UNCHANGED encVars
ResolveWidth ==
  /\ pc = "info"
  /\ ~args.list_info
  /\ LET r == resolve_width(args.width) IN
       /\ width' = r.width
       /\ IF r.exit THEN Exit(1, <<r.msg>>)
          ELSE /\ pc' = "timestamps"
               /\ printed' = Append(printed, r.msg)
               /\ UNCHANGED exitStatus
  /\ UNCHANGED <<args, cmd, success, procs, running, paletteOk,
                 paletteExists, outputExists, fs0, ffmpeg, ts, result>>
  /\ UNCHANGED encVars

\* lines 257-266: the timestamps
ValidateTimestamps ==
  /\ pc = "timestamps"
  /\ IF timestamps_invalid(args.start, args.end)
       THEN Exit(1, <<"invalid_timestamp">>)
       ELSE /\ pc' = "video_to_gif"
            /\ UNCHANGED <<exitStatus, printed>>
  /\ UNCHANGED <<args, width, cmd, success, procs, running, paletteOk,
                 paletteExists, outputExists, fs0, ffmpeg, ts, result>>
  /\ UNCHANGED encVars

\* ------------------------------------------------------------ video_to_gif
\* lines 77-85: the input file must exist
CheckInput_mutant ==
  /\ pc = "video_to_gif"
  /\ \E exists \in BOOLEAN :
       /\ pc' = "trim"
       /\ printed' = IF exists THEN printed
                     ELSE Append(printed, "input_not_found")
       /\ UNCHANGED success
  /\ UNCHANGED <<args, width, cmd, exitStatus, procs, running, paletteOk,
                 paletteExists, outputExists, fs0, ffmpeg, ts, result>>
  /\ UNCHANGED encVars
CheckInput ==
  /\ pc = "video_to_gif"
  /\ \E exists \in BOOLEAN :
       IF exists
         THEN /\ pc' = "trim"
              /\ UNCHANGED <<success, printed>>
         ELSE Return("False", <<"input_not_found">>)
  /\ UNCHANGED <<args, width, cmd, exitStatus, procs, running, paletteOk,
                 paletteExists, outputExists, fs0, ffmpeg, ts, result>>
  /\ UNCHANGED encVars

\* lines 87-106: the trim arguments -ss and -t
BuildTrim ==
  /\ pc = "trim"
  /\ LET start_seconds == timestamp_to_seconds(args.start.text)
         end_seconds == timestamp_to_seconds(args.end.text)
         duration == trim_duration(args.start.given, start_seconds.val,
                                  end_seconds.val)
         withStart == IF args.start.given
                        THEN Append(cmd, Opt("-ss", start_seconds.val))
                        ELSE cmd
     IN
       IF args.start.given /\ start_seconds.raised
         THEN Uncaught("ValueError") /\ UNCHANGED <<cmd, success>>
       ELSE IF ~args.end.given
         THEN /\ cmd' = withStart
              /\ pc' = "palette"
              /\ UNCHANGED <<success, exitStatus, printed>>
       ELSE IF end_seconds.raised
         THEN Uncaught("ValueError") /\ cmd' = withStart /\ UNCHANGED success
       ELSE IF ~args.start.given
         THEN /\ cmd' = Append(withStart, Opt("-t", duration))
              /\ pc' = "palette"
              /\ UNCHANGED <<success, exitStatus, printed>>
       ELSE IF duration_rejected(duration)
         THEN /\ Return("False", <<"invalid_range">>)
              /\ cmd' = withStart
              /\ UNCHANGED exitStatus
       ELSE /\ cmd' = Append(withStart, Opt("-t", duration))
            /\ pc' = "palette"
            /\ UNCHANGED <<success, exitStatus, printed>>
  /\ UNCHANGED <<args, width, procs, running, paletteOk, paletteExists,
                 outputExists, fs0, ffmpeg, ts, result>>
  /\ UNCHANGED encVars

\* lines 108-131: the palette pass is started
StartPalette ==
  /\ pc = "palette"
  /\ pc' = "palette_running"
  /\ printed' = Append(printed, "generating_palette")
  /\ procs' = Append(procs, "palette")
  /\ running' = running \cup {"palette"}
  /\ filters' = base_filters(width, args.fps)
  /\ palette_cmd' = Command(cmd, <<>>, "-vf", palette_filters(filters'),
                            "palette.png")
  /\ UNCHANGED <<args, width, cmd, success, exitStatus, paletteOk,
                 paletteExists, outputExists, fs0, ffmpeg, gif_cmd, ts,
                 result>>

\* lines 131-134: the palette pass ends.  With status 0 it has written
\* palette.png; a failing pass may have written it or not.  On failure
\* video_to_gif returns False.
FinishPalette_mutant ==
  /\ pc = "palette_running"
  /\ running' = running \ {"palette"}
  /\ \E outcome \in {"ok", "nonzero"}, wrote \in BOOLEAN :
       /\ outcome = "ok" => wrote
       /\ paletteExists' = (paletteExists \/ wrote)
       /\ paletteOk' = (outcome = "ok")
       /\ pc' = "final"
       /\ printed' = IF outcome = "ok" THEN printed
                     ELSE Append(printed, "palette_error")
       /\ UNCHANGED success
  /\ UNCHANGED <<args, width, cmd, exitStatus, procs, outputExists, fs0,
                 ffmpeg, ts, result>>
  /\ UNCHANGED encVars
FinishPalette ==
  /\ pc = "palette_running"
  /\ running' = running \ {"palette"}
  /\ \E outcome \in {"ok", "nonzero"}, wrote \in BOOLEAN :
       /\ outcome = "ok" => wrote
       /\ paletteExists' = (paletteExists \/ wrote)
       /\ paletteOk' = (outcome = "ok")
       /\ IF outcome = "ok"
            THEN /\ pc' = "final"
                 /\ UNCHANGED <<success, printed>>
            ELSE Return("False", <<"palette_error">>)
  /\ UNCHANGED <<args, width, cmd, exitStatus, procs, outputExists, fs0,
                 ffmpeg, ts, result>>
  /\ UNCHANGED encVars

\* lines 136-147: the final pass is started
StartFinal ==
  /\ pc = "final"
  /\ pc' = "final_running"
  /\ printed' = Append(printed, "converting")
  /\ procs' = Append(procs, "final")
  /\ running' = running \cup {"final"}
  /\ gif_cmd' = Command(cmd, <<"palette.png">>, "-lavfi",
                        gif_filters(filters), "output_file")
  /\ UNCHANGED <<args, width, cmd, success, exitStatus, paletteOk,
                 paletteExists, outputExists, fs0, ffmpeg, filters,
                 palette_cmd, ts, result>>

\* lines 147-163: the final pass ends.  With status 0 it has written the
\* output file; either way palette.png is removed if it exists.
FinishFinal ==
  /\ pc = "final_running"
  /\ running' = running \ {"final"}
  /\ \E outcome \in {"ok", "nonzero"}, wrote \in BOOLEAN :
       /\ outcome = "ok" => wrote
       /\ outputExists' = (outputExists \/ wrote)
       /\ paletteExists' = FALSE
       /\ IF outcome = "ok"
            THEN Return("True", <<"success">>)
            ELSE Return("False", <<"gif_error">>)
  /\ UNCHANGED <<args, width, cmd, exitStatus, procs, paletteOk, fs0,
                 ffmpeg, ts, result>>
  /\ UNCHANGED encVars

\* line 278: main exits with video_to_gif's value
MainExit ==
  /\ pc = "returned"
  /\ pc' = "exited"
  /\ exitStatus' = exit_code(success)
  /\ UNCHANGED <<args, width, cmd, success, printed, procs, running,
                 paletteOk, paletteExists, outputExists, fs0, ffmpeg, ts,
                 result>>
  /\ UNCHANGED encVars

\* --------------------------------------------------- the specification
\* the state after parse_args, in a working directory where palette.png may
\* be left over from an earlier run
Init ==
  /\ pc = "main"
  /\ args \in [width : WidthTokens, start : RunTimes, end : RunTimes,
               fps : FpsValues, list_info : BOOLEAN]
  /\ width = NoWidth
  /\ cmd = <<>>
  /\ success = "none"
  /\ exitStatus = -1
  /\ printed = <<>>
  /\ ffmpeg = "unknown"
  /\ procs = <<>>
  /\ running = {}
  /\ paletteOk = FALSE
  /\ filters = <<>>
  /\ palette_cmd = NoCommand
  /\ gif_cmd = NoCommand
  /\ paletteExists \in BOOLEAN
  /\ outputExists \in BOOLEAN
  /\ fs0 = [palette |-> paletteExists, output |-> outputExists]
  /\ ts = <<>>
  /\ result = Raised

Next ==
  \/ CheckFfmpeg
  \/ ListInfo
  \/ ResolveWidth
  \/ ValidateTimestamps
  \/ CheckInput
  \/ BuildTrim
  \/ StartPalette
  \/ FinishPalette
  \/ StartFinal
  \/ FinishFinal
  \/ MainExit

Spec == Init /\ [][Next]_vars

\* ------------------------------------- the normalizer on its own (SpecTs)
\* timestamp_to_seconds applied to one time expression
Normalize ==
  /\ pc = "normalize"
  /\ pc' = "normalized"
  /\ result' = timestamp_to_seconds(ts)
  /\ UNCHANGED <<args, width, cmd, success, exitStatus, printed, ffmpeg,
                 procs, running, paletteOk, paletteExists, outputExists,
                 fs0, ts>>
  /\ UNCHANGED encVars

InitTs ==
  /\ pc = "normalize"
  /\ ts \in TimeExprs
  /\ result = Raised
  /\ args = [width |-> None, start |-> None, end |-> None, fps |-> 10,
             list_info |-> FALSE]
  /\ width = NoWidth
  /\ cmd = <<>>
  /\ success = "none"
  /\ exitStatus = -1
  /\ printed = <<>>
  /\ ffmpeg = "unknown"
  /\ procs = <<>>
  /\ running = {}
  /\ paletteOk = FALSE
  /\ filters = <<>>
  /\ palette_cmd = NoCommand
  /\ gif_cmd = NoCommand
  /\ paletteExists = FALSE
  /\ outputExists = FALSE
  /\ fs0 = [palette |-> FALSE, output |-> FALSE]

NextTs == Normalize

SpecTs == InitTs /\ [][NextTs]_vars

\* ------------------------------------------------------------- properties
Started(p) == \E i \in 1..Len(procs) : procs[i] = p
Printed(m) == \E i \in 1..Len(printed) : printed[i] = m

\* the run was ended by one of the validations: main's width or timestamp
\* check, video_to_gif's input-file or time-window check, or the ValueError
\* video_to_gif lets through for an expression main did not validate
ValidationFailed ==
  \/ Printed("invalid_width")
  \/ Printed("invalid_timestamp")
  \/ Printed("input_not_found")
  \/ Printed("invalid_range")
  \/ Printed("ValueError")

\* an encoder pass failed
PassFailed == Printed("palette_error") \/ Printed("gif_error")

\* both --start and --end are given and resolve to a window of no length
EmptyWindow ==
  /\ args.start.given /\ args.end.given
  /\ ~timestamp_to_seconds(args.start.text).raised
  /\ ~timestamp_to_seconds(args.end.text).raised
  /\ timestamp_to_seconds(args.end.text).val
       - timestamp_to_seconds(args.start.text).val <= 0

\* C1: whenever video_to_gif returns after having invoked the palette pass,
\* palette.png does not exist, whatever the outcome of the passes and
\* whether or not palette.png existed before the run.
C1_PaletteRemoved ==
  (pc = "returned" /\ Started("palette")) => ~paletteExists

\* C2: the final pass is started only after the palette pass was started
\* and has ended with success; the passes never run at the same time, never
\* in the other order, and after a failed palette pass the final pass is
\* never started.
C2_PassOrder ==
  /\ Cardinality(running) <= 1
  /\ Started("final") => (paletteOk /\ "palette" \notin running)
  /\ \A i \in 1..Len(procs) :
       procs[i] = "final" => \E j \in 1..(i - 1) : procs[j] = "palette"
  /\ Printed("palette_error") => ~Started("final")

C2_Witness == "final" \in running /\ paletteOk

\* C3: a run exits with 0 when the conversion succeeded or the info-only
\* probe was performed, with 1 after a validation failure, a missing
\* encoder or a failed pass; no failing run exits with 0 and no successful
\* run with 1.
C3_ExitStatus ==
  pc = "exited" =>
    /\ exitStatus \in {0, 1}
    /\ (Printed("success") \/ Started("ffprobe")) => exitStatus = 0
    /\ (ValidationFailed \/ Printed("ffmpeg_missing") \/ PassFailed)
         => exitStatus = 1
    /\ exitStatus = 0 => (Printed("success") \/ Started("ffprobe"))
    /\ exitStatus = 0 =>
         ~(ValidationFailed \/ Printed("ffmpeg_missing") \/ PassFailed)

C3_Witness ==
  /\ pc = "exited" /\ exitStatus = 0 /\ Printed("success")
  /\ paletteOk /\ Started("final")

\* C4 as stated: when a validation error is reported, no external process
\* at all (capability check included) has been started.
C4_NoProcessBeforeValidation ==
  ValidationFailed => procs = <<>>

\* C4 amended: when a validation error is reported, no probe, palette pass
\* or final pass has been started; the capability check, which main runs
\* first, is the only external process of the run.
C4_OnlyCapabilityCheckBeforeValidation ==
  ValidationFailed => procs = <<"ffmpeg -version">>

C4_Witness ==
  /\ pc = "exited" /\ Printed("invalid_range")
  /\ procs = <<"ffmpeg -version">>

\* C5: a request whose start and end both resolve with end - start <= 0 is
\* rejected: video_to_gif returns failure, neither pass is started, and no
\* duration is made up to let the request through.
C5_EmptyWindowRejected ==
  EmptyWindow =>
    /\ ~Started("palette") /\ ~Started("final")
    /\ pc \notin {"palette", "palette_running", "final", "final_running"}
    /\ success # "True"
    /\ pc = "returned" => success = "False"
    /\ \A i \in 1..Len(cmd) : cmd[i].opt # "-t"

C5_Witness ==
  /\ EmptyWindow /\ pc = "returned" /\ Printed("invalid_range")
  /\ timestamp_to_seconds(args.end.text).val
       = timestamp_to_seconds(args.start.text).val

\* C6: a run in which validation fails ends in failure and leaves the file
\* system as it found it: no palette and no output file is created.
C6_ValidationHasNoEffect ==
  ValidationFailed =>
    /\ paletteExists = fs0.palette
    /\ outputExists = fs0.output
    /\ ~Started("palette") /\ ~Started("final")
    /\ pc \in {"returned", "exited"}
    /\ success # "True"
    /\ pc = "exited" => exitStatus = 1

C6_Witness ==
  /\ pc = "exited" /\ Printed("input_not_found") /\ exitStatus = 1
  /\ ~paletteExists /\ ~outputExists

\* C7: when the capability check reports the encoder absent the run exits
\* with 1 and starts no external process besides the check itself.
C7_EncoderMissing ==
  ffmpeg \in {"nonzero", "notfound"} =>
    /\ pc = "exited"
    /\ exitStatus = 1
    /\ Printed("ffmpeg_missing")
    /\ \A i \in 1..Len(procs) : procs[i] = "ffmpeg -version"
    /\ Len(procs) <= 1

C7_Witness ==
  /\ ffmpeg = "nonzero" /\ pc = "exited" /\ exitStatus = 1
  /\ args.list_info /\ procs = <<"ffmpeg -version">>

\* C8: a --list-info run prints the duration or the unknown-duration
\* message, starts neither pass and exits with 0, whatever the outcome of
\* the duration probe (a duration, a failed probe, no probe program).
C8_ListInfo ==
  (args.list_info /\ ffmpeg = "ok" /\ pc = "exited") =>
    /\ Printed("video_duration") \/ Printed("no_duration")
    /\ ~Started("palette") /\ ~Started("final")
    /\ exitStatus = 0

\* C9: width resolution yields a positive width (a preset matched without
\* regard to case, else the token as an integer, 480 without a token) or
\* ends the run with the invalid-width error and status 1; a width that is
\* not positive is never handed to the conversion.
C9_WidthPositive ==
  (~args.list_info /\ pc \notin {"main", "info"} /\ ffmpeg = "ok") =>
    \/ /\ width.given /\ width.n > 0
       /\ lower(args.width.text) \in PresetNames
            => width.n = RECOMMENDED_WIDTHS(lower(args.width.text))
       /\ ~Truthy(args.width) => width.n = 480
    \/ /\ Printed("invalid_width") /\ pc = "exited" /\ exitStatus = 1
       /\ ~Started("palette")

\* a numeral: what parses as a number on its own
Numeral(s) == ParsesAsNumber(s)

\* C10: timestamp_to_seconds gives the number itself for an expression
\* that is a number, H*3600 + M*60 + S for "H:M:S" and M*60 + S for "M:S"
\* with numerals H, M, S; so "0:30" is 30 and "1:15" is 75, 45 apart.
C10_Normalizer ==
  pc = "normalized" =>
    /\ Numeral(ts) => result = Returned(NumberOf(ts))
    /\ \A i, j \in 1..Len(ts) :
         LET H == SubSeq(ts, 1, i - 1)
             M == SubSeq(ts, i + 1, j - 1)
             S == SubSeq(ts, j + 1, Len(ts))
         IN (i < j /\ ts[i] = ":" /\ ts[j] = ":"
               /\ Numeral(H) /\ Numeral(M) /\ Numeral(S))
            => result = Returned(NumberOf(H) * 3600 + NumberOf(M) * 60
                                   + NumberOf(S))
    /\ \A i \in 1..Len(ts) :
         LET M == SubSeq(ts, 1, i - 1)
             S == SubSeq(ts, i + 1, Len(ts))
         IN (ts[i] = ":" /\ Numeral(M) /\ Numeral(S))
            => result = Returned(NumberOf(M) * 60 + NumberOf(S))
    /\ ts = <<"0", ":", "3", "0">> => result = Returned(30)
    /\ ts = <<"1", ":", "1", "5">> => result = Returned(30 + 45)

C10_Witness ==
  /\ pc = "normalized"
  /\ ts = <<"1", ":", "0", ":", "5">>
  /\ result = Returned(3605)

\* the parts of a time expression, read off the positions of its colons:
\* the text between two neighbouring marks, where the marks are the colons,
\* the position before the first character and the one after the last
Marks(s) == {0, Len(s) + 1} \cup {i \in 1..Len(s) : s[i] = ":"}

\* the mark that follows the mark a
NextMark(s, a) ==
  CHOOSE b \in Marks(s) : a < b /\ \A k \in Marks(s) : a < k => b <= k

PartsOf(s) ==
  {SubSeq(s, a + 1, NextMark(s, a) - 1) : a \in Marks(s) \ {Len(s) + 1}}

\* malformed: more than three colon-separated parts, or a part that is no
\* number
Malformed(s) ==
  \/ Cardinality(Marks(s)) - 1 > 3
  \/ \E part \in PartsOf(s) : ~Numeral(part)

MalformedGiven ==
  \/ args.start.given /\ Malformed(args.start.text)
  \/ args.end.given /\ Malformed(args.end.text)

PassStarted == Started("palette") \/ Started("final")

\* C11 as stated: normalization fails on every malformed expression, and a
\* run given one as --start or --end has exited with status 1 and has
\* started neither pass.
C11_MalformedExitsWithOne ==
  (pc = "exited" /\ MalformedGiven) =>
    /\ \A a \in {args.start, args.end} :
         (a.given /\ Malformed(a.text)) => timestamp_to_seconds(a.text).raised
    /\ ~PassStarted
    /\ exitStatus = 1

\* C11 amended: normalization fails on every malformed expression; a run
\* given one as --start or --end has started neither pass when it exits,
\* and exits with status 1 unless --list-info was given, which ends the run
\* before the timestamps are looked at.
C11_MalformedRejected ==
  (pc = "exited" /\ MalformedGiven) =>
    /\ \A a \in {args.start, args.end} :
         (a.given /\ Malformed(a.text)) => timestamp_to_seconds(a.text).raised
    /\ ~PassStarted
    /\ success # "True"
    /\ ~args.list_info => exitStatus = 1

C11_Witness ==
  /\ pc = "exited" /\ exitStatus = 1 /\ Printed("invalid_timestamp")
  /\ args.start = Some(<<"1", ":", "2", ":", "3", ":", "4">>)
  /\ args.end = Some(<<"a", "b", "c">>)

\* C12: whenever timestamp normalization succeeds, the seconds value it
\* returns is not negative.
C12_NonNegative ==
  (pc = "normalized" /\ ~result.raised) => result.val >= 0

\* C13: when both passes are started, they were given the same input and
\* trim arguments and the same base filters, scale (of the resolved width)
\* before fps (of --fps); the command lines differ in the stage appended to
\* the filters, the palette as a further input, and the output path.
C13_SamePassGeometry ==
  Started("final") =>
    /\ gif_cmd.cmd = palette_cmd.cmd
    /\ Len(palette_cmd.filter) = 3 /\ Len(gif_cmd.filter) = 3
    /\ \A i \in 1..2 : gif_cmd.filter[i] = palette_cmd.filter[i]
    /\ palette_cmd.filter[1].name = "scale"
    /\ width.n # 0 => palette_cmd.filter[1].arg = width.n
    /\ palette_cmd.filter[2] = Filter("fps", args.fps)
    /\ palette_cmd.filter[3].name = "palettegen"
    /\ gif_cmd.filter[3].name = "paletteuse"
    /\ palette_cmd.extra_input = <<>>
    /\ gif_cmd.extra_input = <<palette_cmd.out>>
    /\ gif_cmd.out # palette_cmd.out

C13_Witness ==
  /\ "final" \in running
  /\ args.fps = 15
  /\ width = WidthOf(1280)
  /\ Len(gif_cmd.cmd) = 2
  /\ gif_cmd.filter[1] = Filter("scale", 1280)

\* C14: the trim arguments handed to the encoder: -ss with startSeconds
\* exactly when start is set; -t exactly when end is set, with endSeconds -
\* startSeconds when start is set too and endSeconds when it is not; nothing
\* when neither is set.
C14_TrimArguments ==
  Started("palette") =>
    LET c == palette_cmd.cmd
        s == timestamp_to_seconds(args.start.text).val
        e == timestamp_to_seconds(args.end.text).val
    IN
      /\ \A i \in 1..Len(c) : c[i].opt \in {"-ss", "-t"}
      /\ \A i, j \in 1..Len(c) : c[i].opt = c[j].opt => i = j
      /\ (\E i \in 1..Len(c) : c[i].opt = "-ss") <=> args.start.given
      /\ (\E i \in 1..Len(c) : c[i].opt = "-t") <=> args.end.given
      /\ \A i \in 1..Len(c) : c[i].opt = "-ss" => c[i].val = s
      /\ \A i \in 1..Len(c) :
           c[i].opt = "-t" =>
             c[i].val = (IF args.start.given THEN e - s ELSE e)
      /\ Started("final") => gif_cmd.cmd = c

C14_Witness ==
  /\ Started("palette")
  /\ args.start = Some(<<"1">>) /\ args.end = Some(<<"1", "1">>)
  /\ palette_cmd.cmd = <<Opt("-ss", 1), Opt("-t", 10)>>

\* C15: every duration handed to an encoder pass with -t is greater than
\* 0, also when only end is set and the duration is endSeconds itself.
C15_PositiveDuration ==
  Started("palette") =>
    \A i \in 1..Len(palette_cmd.cmd) :
      palette_cmd.cmd[i].opt = "-t" => palette_cmd.cmd[i].val > 0

\* C16: in a run of main, every expression video_to_gif normalizes was
\* accepted by main's validation before, so normalization does not fail
\* inside video_to_gif and no ValueError leaves it.
C16_ValidatedBeforeUse ==
  /\ pc = "trim" =>
       \A a \in {args.start, args.end} :
         a.given => ~timestamp_to_seconds(a.text).raised
  /\ ~Printed("ValueError")

====
